---- MODULE Spec2Model ----
(***************************************************************************)
(* Model of src/fastapi_drive_upload.py: the POST /upload handler, the     *)
(* chunked save of the uploaded stream to a temp file, and the blocking    *)
(* Drive upload run on the thread pool.                                    *)
(*                                                                         *)
(* One request is followed from arrival to the end of its handler.  The    *)
(* handler is cut at its await points; the code between two awaits is one  *)
(* action.  Python str / bytes values are TLA+ strings; an Optional value  *)
(* is <<>> (None) or <<v>>.                                                *)
(*                                                                         *)
(* Byte counts are scaled: the code reads 4096 bytes first, then 65536 at  *)
(* a time, and caps the total at 20 * 1024 * 1024.  The model keeps the    *)
(* same comparisons with FirstReadSize < NextReadSize < MAX_FILE_SIZE      *)
(* small, so that every byte of the stream is an explicit character.       *)
(***************************************************************************)
EXTENDS Integers, Sequences, FiniteSets, TLC, Bags

\* ---------------------------------------------------------------- bounds
FirstReadSize == 4     \* upload_file.read(4096), scaled
NextReadSize  == 5     \* upload_file.read(64 * 1024), scaled
MAX_FILE_SIZE == 8     \* 20 * 1024 * 1024, scaled
MaxInputLen   == 10    \* longest request body modelled

\* ------------------------------------------------------- Python values
None    == <<>>
Some(v) == <<v>>
Val(o)  == o[1]
\* Python truthiness of an Optional[str]: None and "" are falsy.
Truthy(o) == o # None /\ Val(o) # ""

StartsWith(s, p) == Len(s) >= Len(p) /\ SubSeq(s, 1, Len(p)) = p
EndsWith(s, p)   == Len(s) >= Len(p) /\ SubSeq(s, Len(s) - Len(p) + 1, Len(s)) = p

UpperToLower == [c \in {"A", "B", "D", "F", "P", "T", "X"} |->
                   CASE c = "A" -> "a" [] c = "B" -> "b" [] c = "D" -> "d"
                     [] c = "F" -> "f" [] c = "P" -> "p" [] c = "T" -> "t"
                     [] c = "X" -> "x"]
LowerChar(c) == IF c \in DOMAIN UpperToLower THEN UpperToLower[c] ELSE c
RECURSIVE Lower(_)
Lower(s) == IF s = "" THEN "" ELSE LowerChar(Head(s)) \o Lower(Tail(s))

\* ------------------------------------------------------------- inputs
FolderIds    == {None, Some(""), Some("F1")}
ContentTypes == {None, Some(""), Some("application/pdf"),
                 Some("application/zip"), Some("text/plain")}
Filenames    == {None, Some("a.pdf"), Some("B.PDF"), Some("a.txt"), Some("apdf")}
Filler       == "abcdefghijklmnopqrstuvwxyz"
Prefixes     == {"%PDF", "GIF8"}
\* Request bodies: a 4-byte head followed by position-distinct filler, cut at
\* every length 0..MaxInputLen.
Bodies       == {SubSeq(h \o Filler, 1, n) : h \in Prefixes, n \in 0..MaxInputLen}
UuidHex      == {"0a", "1b"}
FileIds      == {"X123", "Y9"}

UPLOAD_TMP_DIR == "/tmp"
PathJoin(dir, name) == dir \o "/" \o name
UniqueName(hex) == "upload_" \o hex \o ".pdf"
Paths == {PathJoin(UPLOAD_TMP_DIR, UniqueName(h)) : h \in UuidHex}

\* A path of the temp directory holds no file, or a file with its bytes.
NoFile   == <<>>
File(b)  == <<b>>
Bytes(f) == f[1]

VARIABLES
  pc,            \* position of the upload() coroutine
  req,           \* the request: folder_id, content_type, filename, body
  local_path,    \* upload(): local_path (None before line 158)
  disk,          \* temp directory: path -> NoFile | File(bytes)
  stream_pos,    \* bytes of the body consumed by upload_file.read
  chunk,         \* save_upload_file: chunk
  total,         \* save_upload_file: total
  exc,           \* exception in flight out of save_upload_file (None if none)
  job,           \* the call submitted to the executor
  response,      \* None, or <<the HTTP response>>
  ever_created,  \* history: the temp file has existed at some point
  app,           \* the module global `app`: index into apps, 0 if unbound
  apps,          \* the FastAPI objects created so far, in creation order
  pool           \* concurrent clients: how many requests are in each client state

module_state  == <<app, apps>>
request_state == <<pc, req, local_path, disk, stream_pos, chunk, total, exc, job,
                   response, ever_created>>

vars == <<request_state, module_state, pool>>

NoReq == [folder_id |-> None, content_type |-> None, filename |-> None, body |-> ""]
NoArgs == [local_path |-> "", filename |-> "", folder_id |-> ""]
\* env, idp: what the running get_drive_service call has read from os.getenv
\* and been answered by the token endpoint (None outside the call);
\* resolves, exchanges, creates count the calls made for this job.
NoJob == [state |-> "none", args |-> NoArgs, env |-> None, idp |-> None,
          creds |-> None, media |-> None, file_id |-> None, error |-> None,
          resolves |-> 0, exchanges |-> 0, creates |-> 0]

\* ------------------------------------------------------------ concurrent clients
MAX_WORKERS == 4       \* ThreadPoolExecutor(max_workers=4)
NumClients  == 6       \* most requests the server is given

\* one request seen from outside: where its handler is, what became of its
\* upload_file_to_drive_sync call, whether its temp file is on disk, and the
\* status it was answered with (0: not answered)
Client(phase, call, file, status) ==
  [phase |-> phase, call |-> call, file |-> file, status |-> status]

\* no module-level statement has run yet
Init ==
  /\ pc = "init_app"
  /\ app = 0
  /\ apps = <<>>
  /\ req = NoReq
  /\ local_path = None
  /\ disk = [p \in Paths |-> NoFile]
  /\ stream_pos = 0
  /\ chunk = ""
  /\ total = 0
  /\ exc = None
  /\ job = NoJob
  /\ response = None
  /\ ever_created = FALSE
  /\ pool = EmptyBag

\* ------------------------------------------------------------ helpers
HTTPException(code, detail) ==
  [type |-> "HTTPException", status_code |-> code, detail |-> detail]
OtherException(type, msg) ==
  [type |-> type, status_code |-> 0, detail |-> msg]

\* str(e): Starlette's HTTPException prints "<status_code>: <detail>".
StatusText(code) ==
  CASE code = 400 -> "400" [] code = 413 -> "413" [] code = 500 -> "500"
    [] code = 502 -> "502" [] OTHER -> "?"
Str(e) == IF e.type = "HTTPException"
          THEN StatusText(e.status_code) \o ": " \o e.detail
          ELSE e.detail

ErrorResponse(e) == [status |-> e.status_code, content |-> [detail |-> e.detail]]

Exists(p) == disk[p] # NoFile
\* if os.path.exists(local_path): os.remove(local_path)
RemoveIfExists(p) == [disk EXCEPT ![p] = NoFile]

\* ---------------------------------------------- module initialisation
\* FastAPI(...): a new application object, no middleware, no routes
NewApp == [middleware |-> {}, routes |-> {}]
CORS_POLICY == [name |-> "CORSMiddleware", allow_origins |-> "*",
                allow_methods |-> "*", allow_headers |-> "*"]

\* the handler actions leave these alone
RequestIdle ==
  UNCHANGED <<req, local_path, disk, stream_pos, chunk, total, exc, job, response,
              ever_created, pool>>

\* line 40: app = FastAPI()
CreateApp ==
  /\ pc = "init_app"
  /\ apps' = Append(apps, NewApp)
  /\ app' = Len(apps) + 1
  /\ pc' = "init_cors"
  /\ RequestIdle

\* lines 43-49: app.add_middleware(CORSMiddleware, ...)
AddCorsMiddleware ==
  /\ pc = "init_cors"
  /\ apps' = [apps EXCEPT ![app].middleware = @ \cup {CORS_POLICY}]
  /\ pc' = "init_app_titled"
  /\ UNCHANGED app
  /\ RequestIdle

\* line 57: app = FastAPI(title="Drive PDF Uploader") binds the name to a new object
CreateTitledApp ==
  /\ pc = "init_app_titled"
  /\ apps' = Append(apps, NewApp)
  /\ app' = Len(apps) + 1
  /\ pc' = "init_routes"
  /\ RequestIdle

\* lines 147, 181, 188: the decorators register the routes on the object
\* `app` names when they run
RegisterRoutes ==
  /\ pc = "init_routes"
  /\ apps' = [apps EXCEPT ![app].routes =
                @ \cup {<<"POST", "/upload">>, <<"GET", "/cron">>, <<"GET", "/">>}]
  /\ pc' = "idle"
  /\ UNCHANGED app
  /\ RequestIdle

\* uvicorn fastapi_drive_upload:app serves the object the name is bound to
Serving == apps[app]

\* ------------------------------------------------------------ upload()
Arrive ==
  /\ pc = "idle"
  /\ <<"POST", "/upload">> \in Serving.routes
  /\ \E f \in FolderIds, ct \in ContentTypes, fn \in Filenames, b \in Bodies :
       req' = [folder_id |-> f, content_type |-> ct, filename |-> fn, body |-> b]
  /\ pc' = "check_folder"
  /\ UNCHANGED <<local_path, disk, stream_pos, chunk, total, exc, job, response,
                 ever_created>>
  /\ UNCHANGED <<module_state, pool>>

\* faulty variant: `if folder_id is None`, an empty folder_id goes through
FolderMissingOnlyNone(folder_id) == folder_id = None

\* lines 150-151
FolderMissing(folder_id) == ~Truthy(folder_id)

CheckFolderId ==
  /\ pc = "check_folder"
  /\ IF FolderMissing(req.folder_id)
     THEN /\ response' = Some(ErrorResponse(HTTPException(400, "Missing folder_id form field")))
          /\ pc' = "responded"
     ELSE /\ pc' = "check_content_type"
          /\ UNCHANGED response
  /\ UNCHANGED <<req, local_path, disk, stream_pos, chunk, total, exc, job, ever_created>>
  /\ UNCHANGED <<module_state, pool>>

\* faulty variant: every declared type other than application/pdf is rejected
ContentTypeRejectedStrict(ct) == Truthy(ct) /\ Val(ct) # "application/pdf"

\* lines 153-155
ContentTypeRejected(ct) ==
  /\ Truthy(ct)
  /\ Val(ct) # "application/pdf"
  /\ ~StartsWith(Val(ct), "application/")

CheckContentType ==
  /\ pc = "check_content_type"
  /\ IF ContentTypeRejected(req.content_type)
     THEN /\ response' = Some(ErrorResponse(HTTPException(400,
                            "Invalid content type: " \o Val(req.content_type))))
          /\ pc' = "responded"
     ELSE /\ pc' = "make_path"
          /\ UNCHANGED response
  /\ UNCHANGED <<req, local_path, disk, stream_pos, chunk, total, exc, job, ever_created>>
  /\ UNCHANGED <<module_state, pool>>

\* lines 157-158: uuid4 draws a name no file of the directory has.
MakeLocalPath ==
  /\ pc = "make_path"
  /\ \E h \in UuidHex :
       /\ ~Exists(PathJoin(UPLOAD_TMP_DIR, UniqueName(h)))
       /\ local_path' = Some(PathJoin(UPLOAD_TMP_DIR, UniqueName(h)))
  /\ pc' = "open"
  /\ UNCHANGED <<req, disk, stream_pos, chunk, total, exc, job, response, ever_created>>
  /\ UNCHANGED <<module_state, pool>>

\* ---------------------------------------------------- save_upload_file
Min(a, b) == IF a < b THEN a ELSE b
Remaining == Len(req.body) - stream_pos
\* await upload_file.read(size): up to size bytes, empty only at end of stream.
ReadSizes(size) == IF Remaining = 0 THEN {0} ELSE 1..Min(size, Remaining)
ReadBytes(n) == SubSeq(req.body, stream_pos + 1, stream_pos + n)

PDF_SIGNATURE == "%PDF"
\* faulty variant: the comparison is off by one
ExceedsLimitOffByOne(t) == t > MAX_FILE_SIZE + 1

\* lines 125 and 140
ExceedsLimit(t) == t > MAX_FILE_SIZE

\* lines 129-131; filename None makes filename.lower() raise AttributeError.
PdfCheckError(c, filename) ==
  IF StartsWith(c, PDF_SIGNATURE) THEN None
  ELSE IF filename = None
       THEN Some(OtherException("AttributeError",
                                "'NoneType' object has no attribute 'lower'"))
       ELSE IF ~EndsWith(Lower(Val(filename)), ".pdf")
            THEN Some(HTTPException(400, "Invalid file type: only PDF allowed"))
            ELSE None

\* faulty variant: the empty check of lines 121-122 is missing
FirstChunkErrorNoEmptyCheck(c, filename) ==
  IF ExceedsLimit(Len(c))
  THEN Some(HTTPException(413, "File exceeds 20MB limit"))
  ELSE PdfCheckError(c, filename)

\* lines 121-131: what the code between the first read and the first write raises.
FirstChunkError(c, filename) ==
  IF c = "" THEN Some(HTTPException(400, "Empty file"))
  ELSE IF ExceedsLimit(Len(c))
       THEN Some(HTTPException(413, "File exceeds 20MB limit"))
       ELSE PdfCheckError(c, filename)

\* lines 137-141
NextChunkError(c, t) ==
  IF c # "" /\ ExceedsLimit(t + Len(c))
  THEN Some(HTTPException(413, "File exceeds 20MB limit"))
  ELSE None

\* faulty variant: each write starts again at offset 0
WrittenFromStart(f, c) == File(c)

\* out_file.write(chunk)
Written(f, c) == File(Bytes(f) \o c)

\* line 119: aiofiles.open(dest_path, "wb") creates (or truncates) the file.
OpenOutFile ==
  /\ pc = "open"
  /\ disk' = [disk EXCEPT ![Val(local_path)] = File("")]
  /\ ever_created' = TRUE
  /\ pc' = "read_first"
  /\ UNCHANGED <<req, local_path, stream_pos, chunk, total, exc, job, response>>
  /\ UNCHANGED <<module_state, pool>>

\* line 119 raising OSError: no file, the async with body is not entered.
OpenOutFileFails ==
  /\ pc = "open"
  /\ exc' = Some(OtherException("OSError", "cannot open temp file"))
  /\ pc' = "save_raised"
  /\ UNCHANGED <<req, local_path, disk, stream_pos, chunk, total, job, response,
                 ever_created>>
  /\ UNCHANGED <<module_state, pool>>

\* lines 120-131
ReadFirstChunk ==
  /\ pc = "read_first"
  /\ \E n \in ReadSizes(FirstReadSize) :
       LET c == ReadBytes(n) IN
       /\ chunk' = c
       /\ stream_pos' = stream_pos + n
       /\ total' = total + Len(c)
       /\ exc' = FirstChunkError(c, req.filename)
       /\ pc' = IF FirstChunkError(c, req.filename) = None THEN "write" ELSE "closing"
  /\ UNCHANGED <<req, local_path, disk, job, response, ever_created>>
  /\ UNCHANGED <<module_state, pool>>

\* lines 133 and 142
WriteChunk ==
  /\ pc = "write"
  /\ disk' = [disk EXCEPT ![Val(local_path)] = Written(@, chunk)]
  /\ pc' = "read_next"
  /\ UNCHANGED <<req, local_path, stream_pos, chunk, total, exc, job, response,
                 ever_created>>
  /\ UNCHANGED <<module_state, pool>>

\* lines 133 and 142 raising OSError (disk full): nothing of the chunk is kept.
WriteChunkFails ==
  /\ pc = "write"
  /\ exc' = Some(OtherException("OSError", "cannot write temp file"))
  /\ pc' = "closing"
  /\ UNCHANGED <<req, local_path, disk, stream_pos, chunk, total, job, response,
                 ever_created>>
  /\ UNCHANGED <<module_state, pool>>

\* lines 136-141
ReadNextChunk ==
  /\ pc = "read_next"
  /\ \E n \in ReadSizes(NextReadSize) :
       LET c == ReadBytes(n) IN
       /\ chunk' = c
       /\ stream_pos' = stream_pos + n
       /\ total' = total + Len(c)
       /\ exc' = NextChunkError(c, total)
       /\ pc' = IF c = "" \/ NextChunkError(c, total) # None THEN "closing" ELSE "write"
  /\ UNCHANGED <<req, local_path, disk, job, response, ever_created>>
  /\ UNCHANGED <<module_state, pool>>

\* faulty variant: the exception in flight is dropped when the file is closed
CloseOutFileSwallowsError ==
  /\ pc = "closing"
  /\ pc' = "close_upload"
  /\ UNCHANGED <<req, local_path, disk, stream_pos, chunk, total, exc, job, response,
                 ever_created>>
  /\ UNCHANGED <<module_state, pool>>

\* leaving the async with block (line 119): the file is closed, an exception
\* in flight goes on to the caller.
CloseOutFile ==
  /\ pc = "closing"
  /\ pc' = IF exc = None THEN "close_upload" ELSE "save_raised"
  /\ UNCHANGED <<req, local_path, disk, stream_pos, chunk, total, exc, job, response,
                 ever_created>>
  /\ UNCHANGED <<module_state, pool>>

\* line 144
CloseUploadFile ==
  /\ pc = "close_upload"
  /\ pc' = "saved"
  /\ UNCHANGED <<req, local_path, disk, stream_pos, chunk, total, exc, job, response,
                 ever_created>>
  /\ UNCHANGED <<module_state, pool>>

\* lines 162-165: every Exception out of save_upload_file, HTTPException
\* included, is answered 500.
SaveExceptHandler ==
  /\ pc = "save_raised"
  /\ disk' = RemoveIfExists(Val(local_path))
  /\ response' = Some(ErrorResponse(HTTPException(500,
                     "Failed to save uploaded file: " \o Str(Val(exc)))))
  /\ pc' = "responded"
  /\ UNCHANGED <<req, local_path, stream_pos, chunk, total, exc, job, ever_created>>
  /\ UNCHANGED <<module_state, pool>>

\* ------------------------------------------------- get_drive_service
\* The process environment read by os.getenv, and the files of the host.
HostFiles == {"/etc/sa.json", "/etc/broken.json"}
IsFile(path) == path \in HostFiles
\* the files from_service_account_file can parse
KeyFiles == {"/etc/sa.json"}
Envs == [sa_file       : {None, Some("/missing.json"), Some("/etc/sa.json"),
                          Some("/etc/broken.json")},
         client_id     : {None, Some(""), Some("id")},
         client_secret : {None, Some("secret")},
         refresh_token : {None, Some("rt")}]

\* faulty variant: the refresh-token trio is tried before the service account file
ResolveCredentialTrioFirst(env, exchange_ok) ==
  IF Truthy(env.client_id) /\ Truthy(env.client_secret) /\ Truthy(env.refresh_token)
  THEN IF exchange_ok
       THEN [creds |-> Some("oauth2"), error |-> None, exchanges |-> 1]
       ELSE [creds |-> None, exchanges |-> 1,
             error |-> Some(OtherException("RuntimeError", "Failed to refresh OAuth2 token"))]
  ELSE IF Truthy(env.sa_file) /\ IsFile(Val(env.sa_file)) /\ Val(env.sa_file) \in KeyFiles
       THEN [creds |-> Some("service_account"), error |-> None, exchanges |-> 0]
       ELSE [creds |-> None, exchanges |-> 0,
             error |-> Some(OtherException("RuntimeError", "Google credentials not configured"))]

\* faulty variant: a rejected token exchange is tried a second time
ResolveCredentialRetriesExchange(env, exchange_ok) ==
  IF Truthy(env.sa_file) /\ IsFile(Val(env.sa_file))
  THEN IF Val(env.sa_file) \in KeyFiles
       THEN [creds |-> Some("service_account"), error |-> None, exchanges |-> 0]
       ELSE [creds |-> None, exchanges |-> 0,
             error |-> Some(OtherException("ValueError", "malformed service account file"))]
  ELSE IF ~(Truthy(env.client_id) /\ Truthy(env.client_secret) /\ Truthy(env.refresh_token))
       THEN [creds |-> None, exchanges |-> 0,
             error |-> Some(OtherException("RuntimeError", "Google credentials not configured"))]
       ELSE IF ~exchange_ok
            THEN [creds |-> None, exchanges |-> 2,
                  error |-> Some(OtherException("RuntimeError", "Failed to refresh OAuth2 token"))]
            ELSE [creds |-> Some("oauth2"), error |-> None, exchanges |-> 1]

\* lines 63-93: the credentials built, or the exception raised, and the number
\* of token exchanges (creds.refresh) made.  exchange_ok is the identity
\* provider's answer to an exchange.
ResolveCredential(env, exchange_ok) ==
  IF Truthy(env.sa_file) /\ IsFile(Val(env.sa_file))
  THEN IF Val(env.sa_file) \in KeyFiles
       THEN [creds |-> Some("service_account"), error |-> None, exchanges |-> 0]
       ELSE [creds |-> None, exchanges |-> 0,
             error |-> Some(OtherException("ValueError", "malformed service account file"))]
  ELSE IF ~(Truthy(env.client_id) /\ Truthy(env.client_secret) /\ Truthy(env.refresh_token))
       THEN [creds |-> None, exchanges |-> 0,
             error |-> Some(OtherException("RuntimeError", "Google credentials not configured"))]
       ELSE IF ~exchange_ok
            THEN [creds |-> None, exchanges |-> 1,
                  error |-> Some(OtherException("RuntimeError", "Failed to refresh OAuth2 token"))]
            ELSE [creds |-> Some("oauth2"), error |-> None, exchanges |-> 1]

\* ------------------------------------------------ the executor's worker
\* a worker thread of the pool takes the call
WorkerStart ==
  /\ job.state = "queued"
  /\ job' = [job EXCEPT !.state = "get_drive_service"]
  /\ UNCHANGED <<pc, req, local_path, disk, stream_pos, chunk, total, exc, response,
                 ever_created>>
  /\ UNCHANGED <<module_state, pool>>

\* line 98 calling lines 65-72: the call reads the process environment
ReadEnvironment ==
  /\ job.state = "get_drive_service"
  /\ \E env \in Envs :
       job' = [job EXCEPT !.state = "authenticate", !.env = Some(env),
                          !.resolves = @ + 1]
  /\ UNCHANGED <<pc, req, local_path, disk, stream_pos, chunk, total, exc, response,
                 ever_created>>
  /\ UNCHANGED <<module_state, pool>>

\* lines 66-67 and 74-91: the credentials are built, with a token exchange on
\* the refresh-token path
GetDriveService ==
  /\ job.state = "authenticate"
  /\ \E exchange_ok \in BOOLEAN :
       LET r == ResolveCredential(Val(job.env), exchange_ok) IN
       job' = [job EXCEPT !.state = "gds_exit",
                          !.creds = r.creds, !.error = r.error,
                          !.exchanges = @ + r.exchanges,
                          !.idp = IF r.exchanges > 0 THEN Some(exchange_ok) ELSE None]
  /\ UNCHANGED <<pc, req, local_path, disk, stream_pos, chunk, total, exc, response,
                 ever_created>>
  /\ UNCHANGED <<module_state, pool>>

\* lines 68, 93 (return) and 75, 91 (raise): the call ends, its locals are gone
ReturnDriveService ==
  /\ job.state = "gds_exit"
  /\ job' = [job EXCEPT !.state = IF job.error = None THEN "media" ELSE "raised",
                        !.env = None, !.idp = None]
  /\ UNCHANGED <<pc, req, local_path, disk, stream_pos, chunk, total, exc, response,
                 ever_created>>
  /\ UNCHANGED <<module_state, pool>>

\* line 103: MediaFileUpload opens local_path for reading.
OpenMedia ==
  /\ job.state = "media"
  /\ job' = IF Exists(job.args.local_path)
            THEN [job EXCEPT !.state = "create",
                             !.media = Some(Bytes(disk[job.args.local_path]))]
            ELSE [job EXCEPT !.state = "raised",
                             !.error = Some(OtherException("FileNotFoundError",
                                                           "No such file or directory"))]
  /\ UNCHANGED <<pc, req, local_path, disk, stream_pos, chunk, total, exc, response,
                 ever_created>>
  /\ UNCHANGED <<module_state, pool>>

\* faulty variant: `if file_id is None`, an empty id is returned as a result
CreateResultNoneOnly(id) ==
  IF id # None
  THEN [file_id |-> id, error |-> None]
  ELSE [file_id |-> None,
        error |-> Some(OtherException("RuntimeError",
                    "Drive API upload failed: No file id returned from Drive API"))]

\* lines 107-112: the provider's response carries an id, or none, or an empty one.
CreateResult(id) ==
  IF Truthy(id)
  THEN [file_id |-> id, error |-> None]
  ELSE [file_id |-> None,
        error |-> Some(OtherException("RuntimeError",
                    "Drive API upload failed: No file id returned from Drive API"))]

\* lines 104-112
ExecuteCreate ==
  /\ job.state = "create"
  /\ \/ \E id \in {None, Some("")} \cup {Some(i) : i \in FileIds} :
          job' = IF CreateResult(id).error = None
                 THEN [job EXCEPT !.state = "returned", !.creates = @ + 1,
                                  !.file_id = CreateResult(id).file_id]
                 ELSE [job EXCEPT !.state = "raised", !.creates = @ + 1,
                                  !.error = CreateResult(id).error]
     \/ job' = [job EXCEPT !.state = "raised", !.creates = @ + 1,
                           !.error = Some(OtherException("RuntimeError",
                                       "Drive API upload failed: HttpError 403"))]
  /\ UNCHANGED <<pc, req, local_path, disk, stream_pos, chunk, total, exc, response,
                 ever_created>>
  /\ UNCHANGED <<module_state, pool>>

\* ------------------------------------------- upload(), after the save
BaseName(path) == SubSeq(path, Len(UPLOAD_TMP_DIR) + 2, Len(path))

\* lines 167-169: loop.run_in_executor submits the call and the handler awaits it.
Dispatch ==
  /\ pc = "saved"
  /\ job' = [NoJob EXCEPT
               !.state = "queued",
               !.args = [local_path |-> Val(local_path),
                         filename   |-> IF Truthy(req.filename) THEN Val(req.filename)
                                        ELSE BaseName(Val(local_path)),
                         folder_id  |-> Val(req.folder_id)]]
  /\ pc' = "await_upload"
  /\ UNCHANGED <<req, local_path, disk, stream_pos, chunk, total, exc, response,
                 ever_created>>
  /\ UNCHANGED <<module_state, pool>>

\* faulty variant: the query string is left out
ShareableUrlNoQuery(file_id) ==
  "https://drive.google.com/file/d/" \o file_id \o "/view"

\* line 178
ShareableUrl(file_id) ==
  "https://drive.google.com/file/d/" \o file_id \o "/view?usp=sharing"

\* faulty variant: the 201 is sent without removing the temp file
UploadReturnedKeepsFile ==
  /\ pc = "await_upload"
  /\ job.state = "returned"
  /\ response' = Some([status |-> 201,
                       content |-> [file_id |-> Val(job.file_id),
                                    shareable_url |-> ShareableUrl(Val(job.file_id))]])
  /\ pc' = "responded"
  /\ UNCHANGED <<req, local_path, disk, stream_pos, chunk, total, exc, job, ever_created>>
  /\ UNCHANGED <<module_state, pool>>

\* lines 175-179
UploadReturned ==
  /\ pc = "await_upload"
  /\ job.state = "returned"
  /\ disk' = RemoveIfExists(Val(local_path))
  /\ response' = Some([status |-> 201,
                       content |-> [file_id |-> Val(job.file_id),
                                    shareable_url |-> ShareableUrl(Val(job.file_id))]])
  /\ pc' = "responded"
  /\ UNCHANGED <<req, local_path, stream_pos, chunk, total, exc, job, ever_created>>
  /\ UNCHANGED <<module_state, pool>>

\* faulty variant: the handler answers 502 without removing the temp file
UploadExceptHandlerKeepsFile ==
  /\ pc = "await_upload"
  /\ job.state = "raised"
  /\ response' = Some(ErrorResponse(HTTPException(502,
                     "Drive upload failed: " \o Str(Val(job.error)))))
  /\ pc' = "responded"
  /\ UNCHANGED <<req, local_path, disk, stream_pos, chunk, total, exc, job, ever_created>>
  /\ UNCHANGED <<module_state, pool>>

\* lines 170-173
UploadExceptHandler ==
  /\ pc = "await_upload"
  /\ job.state = "raised"
  /\ disk' = RemoveIfExists(Val(local_path))
  /\ response' = Some(ErrorResponse(HTTPException(502,
                     "Drive upload failed: " \o Str(Val(job.error)))))
  /\ pc' = "responded"
  /\ UNCHANGED <<req, local_path, stream_pos, chunk, total, exc, job, ever_created>>
  /\ UNCHANGED <<module_state, pool>>

\* ------------------------------------------------------- cancellation
\* The handler's task is cancelled while suspended at an await (client
\* disconnect, server shutdown).  CancelledError is a BaseException: neither
\* `except Exception` block (lines 162, 170) runs, and lines 175-176 are skipped.
\* A thread already running aiofiles' open or write may or may not finish it.
\* Cancelling the await of line 169 cancels the executor's future: a call still
\* queued is dropped and never runs, a call already running is not interrupted.
AwaitPoints == {"open", "read_first", "write", "read_next", "closing",
                "close_upload", "await_upload"}

\* faulty variant: cancelling the handler aborts the call whatever its state
CancelAbortsRunningCall ==
  /\ pc \in AwaitPoints
  /\ pc' = "cancelled"
  /\ job' = IF pc = "await_upload" /\ job.state \notin {"returned", "raised"}
            THEN [job EXCEPT !.state = "cancelled"]
            ELSE job
  /\ UNCHANGED <<req, local_path, disk, stream_pos, chunk, total, exc, response,
                 ever_created>>
  /\ UNCHANGED <<module_state, pool>>

\* faulty variant: the cancelled handler removes its temp file on the way out
CancelRemovesFile ==
  /\ pc \in AwaitPoints
  /\ pc' = "cancelled"
  /\ disk' = RemoveIfExists(Val(local_path))
  /\ job' = IF pc = "await_upload" /\ job.state = "queued"
            THEN [job EXCEPT !.state = "cancelled"]
            ELSE job
  /\ UNCHANGED <<req, local_path, stream_pos, chunk, total, exc, response,
                 ever_created>>
  /\ UNCHANGED <<module_state, pool>>

Cancel ==
  /\ pc \in AwaitPoints
  /\ pc' = "cancelled"
  /\ \E finished \in BOOLEAN :
       /\ disk' = IF finished /\ pc = "open"
                  THEN [disk EXCEPT ![Val(local_path)] = File("")]
                  ELSE IF finished /\ pc = "write"
                       THEN [disk EXCEPT ![Val(local_path)] = Written(@, chunk)]
                       ELSE disk
       /\ ever_created' = (ever_created \/ (finished /\ pc = "open"))
  /\ job' = IF pc = "await_upload" /\ job.state = "queued"
            THEN [job EXCEPT !.state = "cancelled"]
            ELSE job
  /\ UNCHANGED <<req, local_path, stream_pos, chunk, total, exc, response>>
  /\ UNCHANGED <<module_state, pool>>

Next ==
  \/ CreateApp \/ AddCorsMiddleware \/ CreateTitledApp \/ RegisterRoutes
  \/ WorkerStart \/ ReadEnvironment \/ GetDriveService \/ ReturnDriveService
  \/ OpenMedia \/ ExecuteCreate
  \/ Dispatch \/ UploadReturned \/ UploadExceptHandler \/ Cancel
  \/ Arrive \/ CheckFolderId \/ CheckContentType \/ MakeLocalPath
  \/ OpenOutFile \/ OpenOutFileFails \/ ReadFirstChunk \/ WriteChunk
  \/ WriteChunkFails \/ ReadNextChunk \/ CloseOutFile \/ CloseUploadFile
  \/ SaveExceptHandler

Spec == Init /\ [][Next]_vars

\* a worker thread is an operating-system thread: once the executor holds a
\* call a thread takes it, and each blocking step of the call ends, by a
\* result or by an exception
WorkerStep ==
  \/ WorkerStart \/ ReadEnvironment \/ GetDriveService \/ ReturnDriveService
  \/ OpenMedia \/ ExecuteCreate

FairSpec == Spec /\ WF_vars(WorkerStep)

\* ================================================================ the pool
\* Several requests at once, each followed only as far as the executor is
\* concerned; the requests are interchangeable, so the state is the bag of
\* their client states.
RECURSIVE Copies(_)
Copies(S) ==
  IF S = {} THEN 0
  ELSE LET s == CHOOSE x \in S : TRUE IN CopiesIn(s, pool) + Copies(S \ {s})

Clients   == BagToSet(pool)
Receiving == Copies({s \in Clients : s.phase = "receiving"})
Saving    == Copies({s \in Clients : s.phase = "saving"})
Queued    == Copies({s \in Clients : s.call = "queued"})
Running   == Copies({s \in Clients : s.call = "running"})
InFlight  == Copies({s \in Clients : s.phase \in {"receiving", "saving", "await_upload"}})
TempFiles == Copies({s \in Clients : s.file})

ClientStep(s, t) == pool' = (pool (-) SetToBag({s})) (+) SetToBag({t})

PoolIdle == UNCHANGED <<request_state, module_state>>

\* line 147: a POST /upload reaches the handler
ClientArrives ==
  /\ pc = "idle"
  /\ <<"POST", "/upload">> \in Serving.routes
  /\ BagCardinality(pool) < NumClients
  /\ pool' = pool (+) SetToBag({Client("receiving", "none", FALSE, 0)})
  /\ PoolIdle

\* lines 150-155: folder_id or content type refused
ClientRejected ==
  /\ \E s \in Clients :
       /\ s.phase = "receiving"
       /\ ClientStep(s, Client("responded", "none", FALSE, 400))
  /\ PoolIdle

\* lines 157-161 and 119: the temp file is opened under a fresh name
ClientOpensTempFile ==
  /\ \E s \in Clients :
       /\ s.phase = "receiving"
       /\ ClientStep(s, Client("saving", "none", TRUE, 0))
  /\ PoolIdle

\* lines 162-165: save_upload_file raised, the handler removes the file
ClientSaveFails ==
  /\ \E s \in Clients :
       /\ s.phase = "saving"
       /\ ClientStep(s, Client("responded", "none", FALSE, 500))
  /\ PoolIdle

\* lines 167-169: run_in_executor hands the call to the executor and awaits
ClientDispatches ==
  /\ \E s \in Clients :
       /\ s.phase = "saving"
       /\ ClientStep(s, Client("await_upload", "queued", TRUE, 0))
  /\ PoolIdle

\* faulty variant: an executor that starts a thread for every call
WorkerAlwaysAvailable == TRUE

\* line 60: the executor runs at most max_workers calls at a time
WorkerAvailable == Running < MAX_WORKERS

\* a worker thread takes a queued call
PoolWorkerStarts ==
  /\ WorkerAvailable
  /\ \E s \in Clients :
       /\ s.call = "queued"
       /\ ClientStep(s, [s EXCEPT !.call = "running"])
  /\ PoolIdle

\* lines 96-112: upload_file_to_drive_sync returns the file id or raises
PoolWorkerEnds ==
  /\ \E s \in Clients, outcome \in {"returned", "raised"} :
       /\ s.call = "running"
       /\ ClientStep(s, [s EXCEPT !.call = outcome])
  /\ PoolIdle

\* lines 170-179: the handler resumes, removes the file and answers
ClientAnswered ==
  /\ \E s \in Clients :
       /\ s.phase = "await_upload"
       /\ s.call \in {"returned", "raised"}
       /\ ClientStep(s, Client("responded", s.call, FALSE,
                               IF s.call = "returned" THEN 201 ELSE 502))
  /\ PoolIdle

\* CancelledError at an await of lines 119-143 or 169: no handler of upload()
\* catches it; a call still queued is dropped, a running one goes on
ClientCancelled ==
  /\ \E s \in Clients :
       /\ s.phase \in {"saving", "await_upload"}
       /\ ClientStep(s, [s EXCEPT !.phase = "cancelled",
                                  !.call = IF @ = "queued" THEN "cancelled" ELSE @])
  /\ PoolIdle

PoolNext ==
  \/ CreateApp \/ AddCorsMiddleware \/ CreateTitledApp \/ RegisterRoutes
  \/ ClientArrives \/ ClientRejected \/ ClientOpensTempFile \/ ClientSaveFails
  \/ ClientDispatches \/ PoolWorkerStarts \/ PoolWorkerEnds \/ ClientAnswered
  \/ ClientCancelled

SpecPool == Init /\ [][PoolNext]_vars

\* ================================================================ claims
ModuleInitialised == pc \notin {"init_app", "init_cors", "init_app_titled", "init_routes"}
Arrived        == ModuleInitialised /\ pc # "idle"
Ended          == pc \in {"responded", "cancelled"}
TempFileExists == local_path # None /\ Exists(Val(local_path))
Status         == Val(response).status
EmptyFileError   == HTTPException(400, "Empty file")
TooLargeError    == HTTPException(413, "File exceeds 20MB limit")
InvalidTypeError == HTTPException(400, "Invalid file type: only PDF allowed")
IsOSError(e)     == e # None /\ Val(e).type = "OSError"
\* the declared filename ends in .pdf, in any letter case; an absent one does not
HasPdfSuffix(filename) == filename # None /\ EndsWith(Lower(Val(filename)), ".pdf")
\* the first chunk has been read and nothing has been written yet
FirstChunkInHand ==
  /\ pc \in {"write", "closing", "save_raised"}
  /\ local_path # None /\ disk[Val(local_path)] = File("")
  /\ chunk # ""

\* C1 (as claimed): when save_upload_file fails with a client input error, the
\* handler's response carries that error's own status code (400 or 413) and the
\* temp file is gone.
C1_ClientErrorKeepsStatus ==
  (pc = "responded" /\ exc # None /\ Val(exc).type = "HTTPException")
    => (~TempFileExists /\ Status = Val(exc).status_code)

\* C2 (as claimed): in every state where the handler has returned or ended, by
\* a response or by cancellation, the request's temp file does not exist.
C2_TempFileGoneWhenEnded == Ended => ~TempFileExists

\* C3: if the call run on the executor raised (provider failure, credentials
\* not configured, token exchange rejected, no id returned), the response is
\* 502 and the temp file does not exist when the response is produced.
C3_UploadFailureIs502 ==
  /\ (pc = "responded" /\ job.state = "raised")
       => (Status = 502 /\ ~TempFileExists)
  /\ (pc = "responded" /\ Status = 502) => job.state = "raised"

C3_Witness ==
  /\ pc = "responded" /\ Status = 502
  /\ job.error = Some(OtherException("RuntimeError", "Failed to refresh OAuth2 token"))
  /\ ever_created /\ ~TempFileExists

\* C4: when the save and the executor call both succeeded, the response is 201
\* with exactly file_id (the provider's id) and shareable_url =
\* "https://drive.google.com/file/d/" + file_id + "/view?usp=sharing", and the
\* temp file does not exist at the time of the response.
C4_Success201 ==
  /\ (pc = "responded" /\ job.state = "returned")
       => /\ Status = 201
          /\ DOMAIN Val(response).content = {"file_id", "shareable_url"}
          /\ Val(response).content.file_id = Val(job.file_id)
          /\ Val(response).content.file_id \in FileIds
          /\ Val(response).content.shareable_url =
               "https://drive.google.com/file/d/" \o Val(job.file_id) \o "/view?usp=sharing"
          /\ ~TempFileExists
  /\ (pc = "responded" /\ Status = 201) => job.state = "returned"

C4_Witness ==
  /\ pc = "responded" /\ Status = 201
  /\ Val(response).content.shareable_url = "https://drive.google.com/file/d/X123/view?usp=sharing"
  /\ ever_created /\ ~TempFileExists

\* C5: a request whose folder_id is missing or empty is answered 400 before any
\* file processing: no temp path, no temp file, no byte read or written, no
\* call submitted to the executor.
C5_MissingFolderId400 ==
  (Arrived /\ (req.folder_id = None \/ req.folder_id = Some("")))
    => /\ pc \in {"check_folder", "responded"}
       /\ local_path = None /\ ~ever_created
       /\ \A p \in Paths : disk[p] = NoFile
       /\ stream_pos = 0 /\ job = NoJob
       /\ pc = "responded" =>
            response = Some([status |-> 400,
                             content |-> [detail |-> "Missing folder_id form field"]])

C5_Witness ==
  /\ pc = "responded" /\ req.folder_id = Some("") /\ Status = 400
  /\ req.body # ""

\* C6 (as claimed): on the path where the first read yields zero bytes, the
\* temp file never exists at any point of the request.
C6_NoFileOnEmptyUpload == exc = Some(EmptyFileError) => ~ever_created

\* C6 (amended): a zero-byte upload fails with the empty-input error before any
\* byte is written: the file is created empty by the open that precedes the
\* first read, never holds a byte, the save never succeeds, nothing is
\* submitted to the executor, and the file is gone when the handler responds.
C6_EmptyUploadWritesNothing ==
  (req.body = "" /\ local_path # None)
    => /\ disk[Val(local_path)] \in {NoFile, File("")}
       /\ pc \notin {"write", "read_next", "close_upload", "saved", "await_upload"}
       /\ job = NoJob
       /\ pc = "closing" => exc = Some(EmptyFileError)
       /\ exc # None => (exc = Some(EmptyFileError) \/ IsOSError(exc))
       /\ pc = "responded" => (~TempFileExists /\ Status = 500)

C6_Witness ==
  /\ pc = "closing" /\ exc = Some(EmptyFileError)
  /\ disk[Val(local_path)] = File("") /\ ever_created

\* C7 (as claimed): every input longer than the limit makes the save fail with
\* the too-large error (local I/O errors, an absent filename and a first read
\* shorter than asked set aside).
C7_OversizedAlwaysTooLarge ==
  (pc = "save_raised" /\ Len(req.body) > MAX_FILE_SIZE
     /\ req.filename # None /\ ~IsOSError(exc)
     /\ stream_pos >= FirstReadSize)
    => exc = Some(TooLargeError)

\* C7 (amended): the save never succeeds on an input longer than the limit; the
\* cumulative count is checked after each read and before the write, so the
\* too-large error is raised as soon as the count exceeds the limit (unless the
\* save already failed on the first chunk's type check or on a local I/O
\* error), a chunk waiting to be written never takes the count over the limit,
\* and no file ever holds more bytes than the limit.
C7_NeverMoreThanLimitOnDisk ==
  /\ \A p \in Paths : Exists(p) => Len(Bytes(disk[p])) <= MAX_FILE_SIZE
  /\ total > MAX_FILE_SIZE => exc = Some(TooLargeError)
  /\ pc = "write" => total <= MAX_FILE_SIZE
  /\ exc = Some(TooLargeError) => Len(req.body) > MAX_FILE_SIZE
  /\ Len(req.body) > MAX_FILE_SIZE
       => (pc \notin {"close_upload", "saved", "await_upload"} /\ job = NoJob)

C7_Witness ==
  /\ pc = "closing" /\ exc = Some(TooLargeError)
  /\ Len(Bytes(disk[Val(local_path)])) = MAX_FILE_SIZE

\* C8 (as claimed): for every input under the limit with the PDF signature or a
\* .pdf filename, whatever the split into chunks, the save succeeds and the
\* file equals the input (local I/O errors set aside).
C8_ValidInputAlwaysSaved ==
  (pc \in {"saved", "save_raised"} /\ ~IsOSError(exc)
     /\ Len(req.body) < MAX_FILE_SIZE
     /\ (StartsWith(req.body, PDF_SIGNATURE) \/ HasPdfSuffix(req.filename)))
    => (pc = "saved" /\ disk[Val(local_path)] = File(req.body))

\* C8 (amended): for every non-empty input not longer than the limit, and any
\* split into non-empty chunks, the save fails only when the FIRST CHUNK does
\* not begin with %PDF and the filename does not end in .pdf (or on a local I/O
\* error); otherwise it succeeds.  While it runs the file holds exactly the
\* bytes read so far, in order, once each; when it succeeds the file equals
\* the input.
C8_SavedFileEqualsInput ==
  /\ pc \in {"close_upload", "saved", "await_upload"}
       => (disk[Val(local_path)] = File(req.body) /\ exc = None)
  /\ pc = "read_next"
       => disk[Val(local_path)] = File(SubSeq(req.body, 1, stream_pos))
  /\ pc = "write"
       => Bytes(disk[Val(local_path)]) \o chunk = SubSeq(req.body, 1, stream_pos)
  /\ (pc = "save_raised" /\ ~IsOSError(exc)
        /\ req.body # "" /\ Len(req.body) <= MAX_FILE_SIZE)
       => /\ FirstChunkInHand
          /\ ~StartsWith(chunk, PDF_SIGNATURE)
          /\ ~HasPdfSuffix(req.filename)

C8_Witness ==
  /\ pc = "saved" /\ Len(req.body) = MAX_FILE_SIZE
  /\ req.filename = None
  /\ disk[Val(local_path)] = File(req.body)

\* C9 (as claimed): the save fails with the invalid-type error exactly when the
\* first chunk does not begin with %PDF and the filename lacks a .pdf suffix,
\* an absent filename included.
C9_InvalidTypeIff ==
  (FirstChunkInHand /\ ~IsOSError(exc))
    => ((exc = Some(InvalidTypeError))
          <=> (~StartsWith(chunk, PDF_SIGNATURE) /\ ~HasPdfSuffix(req.filename)))

\* C10: a declared content type that is present (not empty), is not
\* "application/pdf" and does not start with "application/" is answered 400
\* before a temp path or file exists and before a stream byte is read; an
\* absent content type, or one starting with "application/", is never answered
\* with the content-type rejection, and the handler goes on to the save.
C10_ContentTypeCheck ==
  LET ct  == req.content_type
      bad == /\ ct # None /\ Val(ct) # ""
             /\ Val(ct) # "application/pdf"
             /\ ~(Len(Val(ct)) >= 12 /\ SubSeq(Val(ct), 1, 12) = "application/")
      ctError == /\ pc = "responded" /\ Status = 400
                 /\ SubSeq(Val(response).content.detail, 1, 20) = "Invalid content type"
  IN Arrived =>
       /\ bad => /\ pc \in {"check_folder", "check_content_type", "responded"}
                 /\ local_path = None /\ ~ever_created /\ stream_pos = 0
                 /\ job = NoJob
                 /\ pc = "responded" => Status = 400
       /\ (bad /\ Truthy(req.folder_id) /\ pc = "responded") => ctError
       /\ ~bad => ~ctError
       /\ (~bad /\ Truthy(req.folder_id) /\ pc = "responded") => local_path # None

C10_Witness ==
  /\ pc = "responded" /\ req.content_type = Some("text/plain")
  /\ Truthy(req.folder_id) /\ Status = 400 /\ req.body # ""

\* ---------------------------------------------------- claims C11 .. C20
ConfigError  == OtherException("RuntimeError", "Google credentials not configured")
AuthError    == OtherException("RuntimeError", "Failed to refresh OAuth2 token")
KeyFileError == OtherException("ValueError", "malformed service account file")
NoIdError    == OtherException("RuntimeError",
                  "Drive API upload failed: No file id returned from Drive API")
\* the call is queued or executing on a worker
CallQueued    == job.state = "queued"
CallExecuting == job.state \in {"get_drive_service", "authenticate", "gds_exit",
                                "media", "create"}
CallEnded     == job.state \in {"returned", "raised"}
Present(o)    == o # None /\ Val(o) # ""

\* C11: credential resolution tries the service account file first: if the
\* configured path exists it is used and no token exchange is made, also when
\* the client id / secret / refresh token are set; otherwise resolution
\* succeeds only when all three are present and the exchange is accepted, and
\* fails with the configuration error (trio incomplete, no exchange made) or
\* the refresh error (exchange rejected) - for every combination of the four
\* configuration values.
C11_CredentialResolution ==
  job.state = "gds_exit" =>
    LET e        == Val(job.env)
        fileUsed == Present(e.sa_file) /\ Val(e.sa_file) \in HostFiles
        trio     == Present(e.client_id) /\ Present(e.client_secret)
                      /\ Present(e.refresh_token)
    IN /\ fileUsed =>
            /\ job.exchanges = 0 /\ job.idp = None
            /\ \/ job.creds = Some("service_account") /\ job.error = None
               \/ job.creds = None /\ job.error = Some(KeyFileError)
            /\ Val(e.sa_file) \in KeyFiles => job.creds = Some("service_account")
       /\ (~fileUsed /\ ~trio) =>
            /\ job.creds = None /\ job.error = Some(ConfigError)
            /\ job.exchanges = 0 /\ job.idp = None
       /\ (~fileUsed /\ trio) =>
            /\ job.exchanges = 1 /\ job.idp # None
            /\ Val(job.idp) => (job.creds = Some("oauth2") /\ job.error = None)
            /\ ~Val(job.idp) => (job.creds = None /\ job.error = Some(AuthError))

C11_Witness ==
  /\ job.state = "gds_exit"
  /\ Val(job.env) = [sa_file |-> Some("/etc/sa.json"), client_id |-> Some("id"),
                     client_secret |-> Some("secret"), refresh_token |-> Some("rt")]
  /\ job.creds = Some("service_account") /\ job.exchanges = 0

\* C12: no partial result: when the provider returns no identifier the call
\* raises and the response is 502; a 201 carries a non-empty provider file_id
\* and the shareable_url, every other response carries neither.
C12_NoPartialResult ==
  /\ job.state = "returned" => (Present(job.file_id) /\ job.error = None)
  /\ job.error # None => (job.file_id = None /\ job.state # "returned")
  /\ (pc = "responded" /\ job.error = Some(NoIdError)) => Status = 502
  /\ (pc = "responded" /\ Status = 201) =>
       /\ DOMAIN Val(response).content = {"file_id", "shareable_url"}
       /\ Val(response).content.file_id # ""
       /\ Val(response).content.file_id = Val(job.file_id)
       /\ Val(response).content.shareable_url # ""
  /\ (pc = "responded" /\ Status # 201) =>
       DOMAIN Val(response).content = {"detail"}

C12_Witness ==
  /\ pc = "responded" /\ Status = 502
  /\ job.error = Some(NoIdError) /\ job.creates = 1
  /\ DOMAIN Val(response).content = {"detail"}

\* C13 (as claimed): after module initialisation the application object that
\* serves POST /upload, GET /cron and GET / carries the CORS middleware.
C13_ServingAppHasCors ==
  ModuleInitialised =>
    /\ {<<"POST", "/upload">>, <<"GET", "/cron">>, <<"GET", "/">>} \subseteq Serving.routes
    /\ CORS_POLICY \in Serving.middleware

\* C14: a request moves through received, validated, persisted-locally,
\* uploaded, cleaned-up, responded in that order and never back: the call is
\* submitted only when the local file holds the whole input, the file of a
\* submitted call is removed only after the call returned or raised, and a
\* response is produced only once the temp file is gone.
StageOf(p) ==
  CASE p \in {"init_app", "init_cors", "init_app_titled", "init_routes", "idle"} -> 0
    [] p \in {"check_folder", "check_content_type", "make_path", "open", "read_first"} -> 1
    [] p \in {"write", "read_next", "closing", "close_upload", "save_raised"} -> 2
    [] p = "saved" -> 3
    [] p = "await_upload" -> 4
    [] p \in {"responded", "cancelled"} -> 5

C14_StagesInOrder ==
  /\ [][StageOf(pc') >= StageOf(pc)]_vars
  /\ [](job.state # "none" =>
          /\ StageOf(pc) >= 4 /\ exc = None
          /\ pc = "await_upload" => disk[Val(local_path)] = File(req.body))
  /\ []((job.state # "none" /\ ~TempFileExists) => (CallEnded /\ pc = "responded"))
  /\ [](response # None => (pc = "responded" /\ ~TempFileExists))
  /\ [](pc = "responded" => response # None)

C14_Witness ==
  /\ pc = "responded" /\ Status = 201 /\ job.state = "returned"
  /\ job.media = Some(req.body) /\ ever_created /\ ~TempFileExists

\* C15: at most 4 upload_file_to_drive_sync calls execute at any time; a
\* request that dispatches while 4 are running waits at the upload step until
\* a worker is free, and meanwhile every other request can still be received,
\* validated, refused or saved.
C15_PoolWidth ==
  /\ Running <= 4
  /\ \A s \in Clients : s.call = "queued" => s.phase = "await_upload"
  /\ Queued > 0 => (ENABLED PoolWorkerStarts <=> Running < 4)
  /\ Receiving > 0 => (ENABLED ClientRejected /\ ENABLED ClientOpensTempFile)
  /\ Saving > 0 => (ENABLED ClientDispatches /\ ENABLED ClientSaveFails)

\* four calls running, a fifth request waiting for a worker, a sixth being received
C15_Witness == Running = 4 /\ Queued >= 1 /\ Receiving >= 1

\* C17 (as claimed): the number of temp files on disk never exceeds the number
\* of in-flight requests.
C17_FilesBoundedByInFlight == TempFiles <= InFlight

\* C16 (as claimed): once the call is submitted, queued or running, it runs to
\* completion (returns an id or raises) whether or not the handler is cancelled.
C16_DispatchedCallCompletes == (CallQueued \/ CallExecuting) ~> CallEnded

\* C16 (amended): once the call has started on a worker, cancelling the handler
\* does not abort it: the cancel step leaves the call as it is and the call
\* runs on until it has returned or raised.  A call still queued when the
\* handler is cancelled is dropped and never runs.
C16_RunningCallSurvivesCancel ==
  /\ [][(pc' = "cancelled" /\ pc # "cancelled" /\ ~CallQueued) => job' = job]_vars
  /\ [][(pc' = "cancelled" /\ pc # "cancelled" /\ CallQueued)
          => job' = [job EXCEPT !.state = "cancelled"]]_vars
  /\ [][job.state = "cancelled" => job' = job]_vars
  /\ [](job.state = "cancelled" =>
          (pc = "cancelled" /\ job.resolves = 0 /\ job.exchanges = 0 /\ job.creates = 0))
  /\ [][(CallExecuting \/ CallEnded) => (CallExecuting' \/ CallEnded')]_vars
  /\ CallExecuting ~> CallEnded

C16_Witness ==
  /\ pc = "cancelled" /\ job.state = "returned" /\ job.creates = 1
  /\ TempFileExists

\* C18: a request that reaches the upload step resolves the credential exactly
\* once, starting from none, with exactly one token exchange on the
\* refresh-token path, before the create call; it makes at most one create
\* call, none when the resolution failed, and a failed create is not retried.
C18_ResolveOncePerUpload ==
  /\ job.resolves <= 1 /\ job.exchanges <= 1 /\ job.creates <= 1
  /\ job.state \in {"none", "queued", "cancelled", "get_drive_service"}
       => (job.resolves = 0 /\ job.creds = None /\ job.exchanges = 0)
  /\ (CallExecuting /\ job.state # "get_drive_service") => job.resolves = 1
  /\ CallEnded => job.resolves = 1
  /\ job.creds = Some("oauth2") => job.exchanges = 1
  /\ job.error = Some(AuthError) => job.exchanges = 1
  /\ job.creates = 1 => (job.creds # None /\ job.resolves = 1)
  /\ job.creds = None => job.creates = 0
  /\ job.state = "returned" => job.creates = 1
  /\ (CallExecuting \/ CallQueued) => job.creates = 0

C18_Witness ==
  /\ job.state = "raised" /\ job.creds = Some("oauth2")
  /\ job.resolves = 1 /\ job.exchanges = 1 /\ job.creates = 1

\* C19: the call is submitted only if save_upload_file completed without
\* error: a request with a missing folder_id, a rejected content type, an empty
\* body, an oversized body or any error of the save has no call, no credential
\* resolution and no token exchange; and whenever the provider is called the
\* temp file holds the complete input.
C19_DispatchOnlyAfterSave ==
  /\ (~Truthy(req.folder_id) \/ ContentTypeRejected(req.content_type)
        \/ req.body = "" \/ Len(req.body) > MAX_FILE_SIZE \/ exc # None)
       => job = NoJob
  /\ job.state # "none" =>
       /\ StageOf(pc) >= 4
       /\ job.args.local_path = Val(local_path)
       /\ job.args.folder_id = Val(req.folder_id)
  /\ (CallQueued \/ CallExecuting) => disk[job.args.local_path] = File(req.body)
  /\ job.media # None => job.media = Some(req.body)
  /\ job.creates > 0 => job.media = Some(req.body)

C19_Witness ==
  /\ job.creates = 1 /\ job.media = Some(req.body)
  /\ Len(req.body) = MAX_FILE_SIZE /\ req.filename = None

\* C20: the temp file of a request is never removed while its call is queued
\* or executing: as long as the call has not returned or raised the file is on
\* disk with the whole input, also after the handler was cancelled while
\* awaiting the call.
C20_NoRemovalDuringCall ==
  (CallQueued \/ CallExecuting) =>
    /\ Exists(job.args.local_path)
    /\ Bytes(disk[job.args.local_path]) = req.body

C20_Witness ==
  /\ pc = "cancelled" /\ job.state = "create"
  /\ Exists(job.args.local_path)
====
